---- MODULE Spec2Model ----
(***************************************************************************)
(* Model of streamlit-template-formatter.py: the template text functions   *)
(* (extract_variables, format_template) and the sheet-backed template      *)
(* store (get_templates_from_sheet, save_template_to_sheet) behind the     *)
(* 60-second st.cache_data cache.                                          *)
(*                                                                         *)
(* A Python str is a sequence of one-character strings.                    *)
(***************************************************************************)
EXTENDS Integers, Sequences, FiniteSets, TLC

VARIABLES
  template_content,  \* the text area of main()
  var_values,        \* the dict handed to format_template, in iteration order
  variables,         \* what extract_variables returned in the last script run
  result,            \* what format_template returned
  ui,                \* where the right column stands
  service,           \* whether get_sheets_service() yields a service
  sheet,             \* the rows of Templates!A:B, each a sequence of cells
  cache,             \* the st.cache_data entry of get_templates_from_sheet
  lastOp,            \* the last operation and its arguments
  ret,               \* what the last save_template_to_sheet returned
  calls              \* the API and cache calls the last operation made

vars == <<template_content, var_values, variables, result, ui,
          service, sheet, cache, lastOp, ret, calls>>

textVars == <<template_content, var_values, variables, result, ui>>
sheetVars == <<service, sheet, cache, lastOp, ret, calls>>

----------------------------------------------------------------------------
(* Bounds of the model                                                     *)

MaxPieces == 6
MaxFmtPieces == 3
MaxRescanPieces == 3
MaxRows == 3
TickSeconds == 30

----------------------------------------------------------------------------
(* Strings                                                                 *)

Open == <<"{", "{">>
Close == <<"}", "}">>
Braces == {"{", "}"}
Whitespace == {" ", "\t", "\n"}

Range(f) == {f[i] : i \in DOMAIN f}

\* s[from..] as a string, empty when from is past the end
Suffix(s, from) == SubSeq(s, from, Len(s))

\* old occurs in s at 1-based position pos
OccursAt(s, pos, old) ==
  /\ pos >= 1
  /\ pos + Len(old) - 1 <= Len(s)
  /\ SubSeq(s, pos, pos + Len(old) - 1) = old

Contains(s, old) == \E pos \in 1..(Len(s) + 1) : OccursAt(s, pos, old)

HasBrace(s) == \E i \in DOMAIN s : s[i] \in Braces

\* str.strip(): drop leading and trailing whitespace
RECURSIVE lstrip(_)
lstrip(s) ==
  IF s # <<>> /\ Head(s) \in Whitespace THEN lstrip(Tail(s)) ELSE s

RECURSIVE rstrip(_)
rstrip(s) ==
  IF s # <<>> /\ s[Len(s)] \in Whitespace
  THEN rstrip(SubSeq(s, 1, Len(s) - 1))
  ELSE s

stripNone(s) == s

strip(s) == rstrip(lstrip(s))

\* str.replace(old, new, 1): the first occurrence only
RECURSIVE replaceFirst(_, _, _)
replaceFirst(s, old, new) ==
  IF Len(s) < Len(old) THEN s
  ELSE IF SubSeq(s, 1, Len(old)) = old
       THEN new \o Suffix(s, Len(old) + 1)
       ELSE <<Head(s)>> \o replaceFirst(Tail(s), old, new)

\* str.replace(old, new) for a non-empty old: left to right, non-overlapping
RECURSIVE replace(_, _, _)
replace(s, old, new) ==
  IF Len(s) < Len(old) THEN s
  ELSE IF SubSeq(s, 1, Len(old)) = old
       THEN new \o replace(Suffix(s, Len(old) + 1), old, new)
       ELSE <<Head(s)>> \o replace(Tail(s), old, new)

----------------------------------------------------------------------------
(* extract_variables: re.findall(r'{{([^}]+)}}', template), then strip     *)

\* length of the run of non-'}' characters of s starting at pos
RECURSIVE RunLen(_, _)
RunLen(s, pos) ==
  IF pos <= Len(s) /\ s[pos] # "}" THEN 1 + RunLen(s, pos + 1) ELSE 0

\* The pattern tried at pos: '{{', then [^}]+ greedy with backtracking over
\* its length k, then '}}'.  The length of group 1, 0 when there is no match.
GroupLenNoOpen(s, pos) ==
  LET n == RunLen(s, pos + 2)
      ks == {k \in 1..n : OccursAt(s, pos + 2 + k, Close)}
  IN IF ks = {} THEN 0 ELSE CHOOSE k \in ks : \A m \in ks : m <= k

GroupLen(s, pos) ==
  IF OccursAt(s, pos, Open) THEN GroupLenNoOpen(s, pos) ELSE 0

\* re.findall: the group of each leftmost non-overlapping match, in order
RECURSIVE findallFrom(_, _)
findallFrom(s, pos) ==
  IF pos > Len(s) THEN <<>>
  ELSE LET k == GroupLen(s, pos)
       IN IF k > 0
          THEN <<SubSeq(s, pos + 2, pos + 1 + k)>> \o findallFrom(s, pos + 4 + k)
          ELSE findallFrom(s, pos + 1)

\* a scan that resumes one character after the start of a match
RECURSIVE findallOverlapFrom(_, _)
findallOverlapFrom(s, pos) ==
  IF pos > Len(s) THEN <<>>
  ELSE LET k == GroupLen(s, pos)
       IN IF k > 0
          THEN <<SubSeq(s, pos + 2, pos + 1 + k)>> \o findallOverlapFrom(s, pos + 1)
          ELSE findallOverlapFrom(s, pos + 1)

findallOverlap(s) == findallOverlapFrom(s, 1)

findall(s) == findallFrom(s, 1)

extract_variables_nostrip(template) == Range(findall(template))

extract_variables(template) == {strip(m) : m \in Range(findall(template))}

----------------------------------------------------------------------------
(* format_template: one str.replace per item of the dict, in its order     *)

placeholder(var_name) == Open \o var_name \o Close

KeysOf(d) == {d[i][1] : i \in DOMAIN d}

\* a loop that returns inside its first iteration
format_template_first(template_text, variables_dict) ==
  IF variables_dict = <<>> THEN template_text
  ELSE replace(template_text, placeholder(Head(variables_dict)[1]),
               Head(variables_dict)[2])

\* a renderer that drops the placeholders left after the loop
RECURSIVE DropAll(_, _)
DropAll(text, names) ==
  IF names = <<>> THEN text
  ELSE DropAll(replace(text, placeholder(Head(names)), <<>>), Tail(names))

RECURSIVE format_template_clean(_, _)
format_template_clean(template_text, variables_dict) ==
  IF variables_dict = <<>> THEN DropAll(template_text, findall(template_text))
  ELSE format_template_clean(
         replace(template_text, placeholder(Head(variables_dict)[1]),
                 Head(variables_dict)[2]),
         Tail(variables_dict))

\* one linear scan of the original text: each '{{name}}' of a name of the
\* dict gives way to its value, and substituted text is never scanned again
RECURSIVE SinglePassFrom(_, _, _)
SinglePassFrom(s, pos, d) ==
  IF pos > Len(s) THEN <<>>
  ELSE LET hits == {i \in DOMAIN d : OccursAt(s, pos, placeholder(d[i][1]))}
       IN IF hits # {}
          THEN LET i == CHOOSE h \in hits : \A g \in hits : h <= g
               IN d[i][2] \o SinglePassFrom(s, pos + Len(d[i][1]) + 4, d)
          ELSE <<s[pos]>> \o SinglePassFrom(s, pos + 1, d)

format_template_single_pass(template_text, variables_dict) ==
  SinglePassFrom(template_text, 1, variables_dict)

RECURSIVE format_template(_, _)
format_template(template_text, variables_dict) ==
  IF variables_dict = <<>> THEN template_text
  ELSE LET var_name == Head(variables_dict)[1]
           var_value == Head(variables_dict)[2]
       IN format_template(replace(template_text, placeholder(var_name), var_value),
                          Tail(variables_dict))

----------------------------------------------------------------------------
(* Input domains                                                           *)

RECURSIVE Flatten(_)
Flatten(ps) == IF ps = <<>> THEN <<>> ELSE Head(ps) \o Flatten(Tail(ps))

\* every concatenation of at most n pieces
BodiesOf(Pieces, n) ==
  {Flatten(ps) : ps \in UNION {[1..k -> Pieces] : k \in 0..n}}

\* bodies typed character by character, braces single or doubled
CharPieces == {Open, Close, <<"{">>, <<"}">>, <<" ">>, <<"a">>}

ExtractBodies == BodiesOf(CharPieces, MaxPieces)

\* bodies built from whole placeholders and loose delimiters
FmtPieces ==
  {Open, Close, placeholder(<<"a">>), placeholder(<<"b">>),
   placeholder(<<" ", "a">>)}

FormatBodies == BodiesOf(FmtPieces, MaxFmtPieces)

FmtKeys == {<<"a">>, <<"b">>, <<" ", "a">>}
FmtValues == {<<>>, <<"b">>, placeholder(<<"b">>)}

\* a dict in iteration order: pairs <<name, value>> with distinct names.
\* format_template is applied to any dict; main() hands it one keyed by the
\* extracted names, iterated in the order of a Python set.
DictsOf(Keys, Values) ==
  {d \in UNION {[1..k -> Keys \X Values] : k \in 0..Cardinality(Keys)} :
     \A i, j \in DOMAIN d : i # j => d[i][1] # d[j][1]}

FormatDicts == DictsOf(FmtKeys, FmtValues)

\* dicts whose values may introduce the placeholder of another name, one
\* name carrying braces of its own
RescanPieces == {Open, Close, placeholder(<<"a">>), placeholder(<<"b">>)}
RescanBodies == BodiesOf(RescanPieces, MaxRescanPieces)
RescanKeys == {<<"a">>, <<"b">>, Open \o <<"b">>}
RescanValues == {placeholder(<<"b">>), <<"x">>}
RescanDicts == DictsOf(RescanKeys, RescanValues)

----------------------------------------------------------------------------
(* The template store: a sheet read through a 60-second cache.  The cache   *)
(* of st.cache_data is shared by every session of the server, so a save by *)
(* another session is one more SaveTemplate step.  The Sheets API calls    *)
(* are taken to succeed; a missing service is the variable service.        *)

TTL == 60

Upper == <<"A", "B", "C", "D", "E", "F", "G", "H", "I", "J", "K", "L", "M",
           "N", "O", "P", "Q", "R", "S", "T", "U", "V", "W", "X", "Y", "Z">>
Lowercase == <<"a", "b", "c", "d", "e", "f", "g", "h", "i", "j", "k", "l", "m",
               "n", "o", "p", "q", "r", "s", "t", "u", "v", "w", "x", "y", "z">>

\* str.lower()
lower(s) ==
  [i \in DOMAIN s |->
     IF \E u \in DOMAIN Upper : Upper[u] = s[i]
     THEN Lowercase[CHOOSE u \in DOMAIN Upper : Upper[u] = s[i]]
     ELSE s[i]]

HeaderNames ==
  {<<"n", "a", "m", "e">>,
   <<"t", "e", "m", "p", "l", "a", "t", "e", " ", "n", "a", "m", "e">>,
   <<"t", "e", "m", "p", "l", "a", "t", "e">>}

NoTemplates == <<>>

\* templates[name] = content on a dict
Put(templates, name, content) ==
  [n \in DOMAIN templates \cup {name} |->
     IF n = name THEN content ELSE templates[n]]

\* the loop over values[start_row:], rows without a second cell skipped
RECURSIVE process_rows(_, _)
process_rows(rows, templates) ==
  IF rows = <<>> THEN templates
  ELSE process_rows(Tail(rows),
                    IF Len(Head(rows)) >= 2
                    THEN Put(templates, strip(Head(rows)[1]), Head(rows)[2])
                    ELSE templates)

\* the body of get_templates_from_sheet on the rows the API returned; the
\* IndexError of values[0][0] on an empty first row ends in the except branch
fetch_templates(values) ==
  IF values = <<>> THEN NoTemplates
  ELSE IF values[1] = <<>> THEN NoTemplates
  ELSE LET start_row == IF lower(values[1][1]) \in HeaderNames THEN 1 ELSE 0
       IN process_rows(Suffix(values, start_row + 1), NoTemplates)

NoCache == [valid |-> FALSE, value |-> NoTemplates, age |-> 0]

\* get_templates_from_sheet() behind @st.cache_data(ttl=60): the cached value
\* while it is younger than the ttl, else the function runs and is cached
get_templates_from_sheet(svc, values, c) ==
  IF c.valid /\ c.age < TTL
  THEN [value |-> c.value, cache |-> c, calls |-> <<>>]
  ELSE LET v == IF svc THEN fetch_templates(values) ELSE NoTemplates
       IN [value |-> v,
           cache |-> [valid |-> TRUE, value |-> v, age |-> 0],
           calls |-> IF svc THEN <<"get">> ELSE <<>>]

MsgRequired == <<"Template name and content are required.">>
MsgUnavailable == <<"Google Sheets service not available.">>
MsgUpdated(name) == <<"Template '", name, "' updated successfully.">>
MsgSaved(name) == <<"Template '", name, "' saved successfully.">>

\* the rows whose first cell is name, by index
RowsNamed(values, name) ==
  {i \in DOMAIN values : Len(values[i]) > 0 /\ values[i][1] = name}

\* sheet.values().update of cell B of row i
UpdateB(values, i, content) ==
  [values EXCEPT ![i] = <<values[i][1], content>>]

\* the function past its argument check
save_checked(name, content, svc, values, c) ==
  IF ~svc
  THEN [ret |-> <<FALSE, MsgUnavailable>>, sheet |-> values, cache |-> c,
        calls |-> <<>>]
  ELSE LET got == get_templates_from_sheet(svc, values, c)
           templates == got.value
           found == RowsNamed(values, name)
       IN IF name \in DOMAIN templates /\ found # {}
          THEN LET i == CHOOSE r \in found : \A q \in found : r <= q
               IN [ret |-> <<TRUE, MsgUpdated(name)>>,
                   sheet |-> UpdateB(values, i, content),
                   cache |-> NoCache,
                   calls |-> got.calls \o <<"get", "update", "clear">>]
          ELSE [ret |-> <<TRUE, MsgSaved(name)>>,
                sheet |-> Append(values, <<name, content>>),
                cache |-> NoCache,
                calls |-> got.calls \o <<"get", "append", "clear">>]

\* a save without the argument check
save_unchecked(name, content, svc, values, c) ==
  save_checked(name, content, svc, values, c)

\* save_template_to_sheet(name, content): the return value, the sheet and the
\* cache it leaves, and the calls it made
save_template_to_sheet(name, content, svc, values, c) ==
  IF name = <<>> \/ content = <<>>
  THEN [ret |-> <<FALSE, MsgRequired>>, sheet |-> values, cache |-> c,
        calls |-> <<>>]
  ELSE save_checked(name, content, svc, values, c)

SheetNames == {<<"a">>, <<" ", "a">>, <<"n", "a", "m", "e">>}
SheetContents == {<<"x">>, <<"y">>}

HeaderRow == << <<"N", "a", "m", "e">>, <<"T", "e", "m", "p", "l", "a", "t", "e">> >>

NoOp == [op |-> "none", name |-> <<>>, content |-> <<>>]
NoRet == <<FALSE, <<>>>>

\* the sheet side at rest (the text specifications leave it alone)
SheetIdle ==
  /\ service = TRUE
  /\ sheet = <<>>
  /\ cache = NoCache
  /\ lastOp = NoOp
  /\ ret = NoRet
  /\ calls = <<>>

TextIdle ==
  /\ template_content = <<>>
  /\ var_values = <<>>
  /\ variables = {}
  /\ result = <<>>
  /\ ui = "input"

InitSheet ==
  /\ TextIdle
  /\ service \in BOOLEAN
  /\ sheet \in {<<>>, <<HeaderRow>>}
  /\ cache = NoCache
  /\ lastOp = NoOp
  /\ ret = NoRet
  /\ calls = <<>>

\* a call of save_template_to_sheet; main() makes it from "Save to Sheets"
SaveTemplate(name, content) ==
  LET r == save_template_to_sheet(name, content, service, sheet, cache)
  IN /\ Len(r.sheet) <= MaxRows
     /\ sheet' = r.sheet
     /\ cache' = r.cache
     /\ ret' = r.ret
     /\ calls' = r.calls
     /\ lastOp' = [op |-> "save", name |-> name, content |-> content]
     /\ UNCHANGED <<service, textVars>>

\* a script run: templates = get_templates_from_sheet()
LoadTemplates ==
  LET got == get_templates_from_sheet(service, sheet, cache)
  IN /\ cache' = got.cache
     /\ calls' = got.calls
     /\ lastOp' = [op |-> "load", name |-> <<>>, content |-> <<>>]
     /\ UNCHANGED <<service, sheet, ret, textVars>>

\* "Refresh Templates": st.cache_data.clear(), then st.rerun()
RefreshTemplates ==
  LET got == get_templates_from_sheet(service, sheet, NoCache)
  IN /\ cache' = got.cache
     /\ calls' = <<"clear">> \o got.calls
     /\ lastOp' = [op |-> "refresh", name |-> <<>>, content |-> <<>>]
     /\ UNCHANGED <<service, sheet, ret, textVars>>

\* time passes over a cached entry
Tick ==
  /\ cache.valid
  /\ cache.age < TTL
  /\ cache' = [cache EXCEPT !.age = IF @ + TickSeconds > TTL THEN TTL ELSE @ + TickSeconds]
  /\ calls' = <<>>
  /\ lastOp' = [op |-> "tick", name |-> <<>>, content |-> <<>>]
  /\ UNCHANGED <<service, sheet, ret, textVars>>

NextSheet ==
  \/ \E name \in SheetNames \cup {<<>>} :
       \E content \in SheetContents \cup {<<>>} : SaveTemplate(name, content)
  \/ LoadTemplates
  \/ RefreshTemplates
  \/ Tick

SpecSheet == InitSheet /\ [][NextSheet]_vars

----------------------------------------------------------------------------
(* The store's claims                                                      *)

\* the rows get_templates_from_sheet does not take for the header
DataRows(values) ==
  LET header == IF values # <<>> /\ values[1] # <<>>
                   /\ lower(values[1][1]) \in HeaderNames
                THEN 1 ELSE 0
  IN {i \in DOMAIN values : i > header /\ Len(values[i]) > 0}

\* C5: no two rows of the sheet carry the same template name.
Orig_C5 ==
  \A i, j \in DataRows(sheet) : i # j => sheet[i][1] # sheet[j][1]

\* C9: after a successful save the cache is cleared and the next
\* get_templates_from_sheet() maps the saved name to the saved content.
Orig_C9 ==
  (lastOp.op = "save" /\ ret[1]) =>
    /\ cache = NoCache
    /\ LET templates == get_templates_from_sheet(service, sheet, cache).value
       IN /\ lastOp.name \in DOMAIN templates
          /\ templates[lastOp.name] = lastOp.content

\* C8: a save with an empty name or an empty content returns
\* (False, 'Template name and content are required.') and leaves the sheet
\* and the cache as they were, with no API call and no cache clear.
Thm_C8 ==
  [][ (lastOp'.op = "save" /\ (lastOp'.name = <<>> \/ lastOp'.content = <<>>))
      => /\ ret' = <<FALSE, MsgRequired>>
         /\ sheet' = sheet
         /\ cache' = cache
         /\ calls' = <<>> ]_vars

Wit_C8 ==
  /\ lastOp.op = "save"
  /\ lastOp.name = <<>>
  /\ lastOp.content # <<>>
  /\ ret = <<FALSE, MsgRequired>>
  /\ service
  /\ cache.valid
  /\ Len(sheet) >= 2

----------------------------------------------------------------------------
(* main(), right column: the script run extracts the variables of the text *)
(* area; a click on "Format Template" also renders it                      *)

TextInit(Bodies, Dicts) ==
  /\ template_content \in Bodies
  /\ var_values \in Dicts
  /\ variables = {}
  /\ result = <<>>
  /\ ui = "input"

\* a script run without the Format button
Rerun ==
  /\ ui = "input"
  /\ variables' = extract_variables(template_content)
  /\ ui' = "extracted"
  /\ UNCHANGED <<template_content, var_values, result>>
  /\ UNCHANGED sheetVars

\* "Format Template" with a non-empty text area
FormatClick ==
  /\ ui = "input"
  /\ template_content # <<>>
  /\ variables' = extract_variables(template_content)
  /\ result' = format_template(template_content, var_values)
  /\ ui' = "formatted"
  /\ UNCHANGED <<template_content, var_values>>
  /\ UNCHANGED sheetVars

\* "Format Template" with an empty text area: st.error, nothing rendered
FormatEmpty ==
  /\ ui = "input"
  /\ template_content = <<>>
  /\ variables' = extract_variables(template_content)
  /\ ui' = "error"
  /\ UNCHANGED <<template_content, var_values, result>>
  /\ UNCHANGED sheetVars

InitExtract == TextInit(ExtractBodies, {<<>>}) /\ SheetIdle
NextExtract == Rerun
SpecExtract == InitExtract /\ [][NextExtract]_vars

InitFormat == TextInit(FormatBodies, FormatDicts) /\ SheetIdle
NextFormat == FormatClick \/ FormatEmpty
SpecFormat == InitFormat /\ [][NextFormat]_vars

InitRescan == TextInit(RescanBodies, RescanDicts) /\ SheetIdle
SpecRescan == InitRescan /\ [][NextFormat]_vars

----------------------------------------------------------------------------
(* Placeholders as the specification defines them                          *)

\* '{{' at i, '}}' at j, one or more characters between them, none a '}'
Candidate(s, i, j) ==
  /\ OccursAt(s, i, Open)
  /\ j >= i + 3
  /\ OccursAt(s, j, Close)
  /\ \A m \in (i + 2)..(j - 1) : s[m] # "}"

\* the maximal such run: no candidate with the same '}}' opens further left
IsPlaceholderAt(s, i, j) ==
  /\ Candidate(s, i, j)
  /\ \A i2 \in 1..(i - 1) : ~Candidate(s, i2, j)

PlaceholderTexts(s) ==
  {SubSeq(s, p[1] + 2, p[2] - 1) :
     p \in {q \in (1..Len(s)) \X (1..Len(s)) : IsPlaceholderAt(s, q[1], q[2])}}

\* u is t without its leading and trailing whitespace
IsTrimOf(u, t) ==
  \E i \in 1..(Len(t) + 1) : \E j \in 0..Len(t) :
    /\ u = SubSeq(t, i, j)
    /\ \A m \in DOMAIN t : (m < i \/ m > j) => t[m] \in Whitespace
    /\ u # <<>> => (u[1] \notin Whitespace /\ u[Len(u)] \notin Whitespace)
    /\ u = <<>> => \A m \in DOMAIN t : t[m] \in Whitespace

AllWhitespace(t) == \A m \in DOMAIN t : t[m] \in Whitespace

Extracted == ui \in {"extracted", "formatted"}

\* C1: extract_variables(body) is exactly the set of whitespace-trimmed inner
\* texts of the placeholders of body (the maximal runs of one or more non-'}'
\* characters between '{{' and the next '}}'); no placeholder, no variable.
Thm_C1 ==
  Extracted =>
    /\ \A u \in variables :
         \E t \in PlaceholderTexts(template_content) : IsTrimOf(u, t)
    /\ \A t \in PlaceholderTexts(template_content) :
         \E u \in variables : IsTrimOf(u, t)

\* a body whose match opens at '{{{' and carries whitespace to trim
Wit_C1 ==
  /\ ui = "extracted"
  /\ Contains(template_content, <<"{", "{", "{">>)
  /\ \E t \in PlaceholderTexts(template_content) : t \notin variables
  /\ variables # {}

\* C6: a placeholder whose inner text is all whitespace puts the empty
\* string among the extracted variable names.
Thm_C6 ==
  (Extracted /\ \E t \in PlaceholderTexts(template_content) : AllWhitespace(t))
    => <<>> \in variables

Wit_C6 ==
  /\ ui = "extracted"
  /\ Contains(template_content, Open \o <<" ", " ">> \o Close)
  /\ <<>> \in variables

----------------------------------------------------------------------------
(* Rendering                                                               *)

Count(s, old) == Cardinality({pos \in 1..Len(s) : OccursAt(s, pos, old)})

NameOf(d, i) == d[i][1]
ValueOf(d, i) == d[i][2]

PermsOf(n) == {p \in [1..n -> 1..n] : \A i, j \in 1..n : i # j => p[i] # p[j]}

Reorder(d, p) == [i \in DOMAIN d |-> d[p[i]]]

SameInEveryOrder ==
  \A p \in PermsOf(Len(var_values)) :
    format_template(template_content, Reorder(var_values, p)) = result

PlainKeys(d) == \A i \in DOMAIN d : ~HasBrace(NameOf(d, i))

PlainValues(d) ==
  \A i \in DOMAIN d : ValueOf(d, i) # <<>> /\ ~HasBrace(ValueOf(d, i))

\* no placeholder of the body has a '{' in its inner text
PlainBody(s) == \A t \in PlaceholderTexts(s) : ~HasBrace(t)

Plain ==
  /\ PlainKeys(var_values)
  /\ PlainValues(var_values)
  /\ PlainBody(template_content)

\* the text before and after the i-th iteration of the loop
Before(i) == format_template(template_content, SubSeq(var_values, 1, i - 1))
After(i) == format_template(template_content, SubSeq(var_values, 1, i))

\* C2, as stated: every placeholder whose trimmed name has no entry in the
\* mapping is still in the output, and an empty mapping renders the body.
Orig_C2 ==
  ui = "formatted" =>
    /\ \A t \in PlaceholderTexts(template_content) :
         strip(t) \notin KeysOf(var_values) =>
           Count(result, placeholder(t)) >= Count(template_content, placeholder(t))
    /\ var_values = <<>> => result = template_content

\* C2, amended: when no key of the mapping contains a brace, every placeholder
\* whose inner text has no '{' and is not, as written, a key of the mapping is
\* still in the output; an empty mapping renders the body itself.
Thm_C2 ==
  (ui = "formatted" /\ PlainKeys(var_values)) =>
    /\ \A t \in PlaceholderTexts(template_content) :
         (~HasBrace(t) /\ t \notin KeysOf(var_values)) =>
           Count(result, placeholder(t)) >= Count(template_content, placeholder(t))
    /\ var_values = <<>> => result = template_content

Wit_C2 ==
  /\ ui = "formatted"
  /\ PlainKeys(var_values)
  /\ result # template_content
  /\ \E t \in PlaceholderTexts(template_content) :
       /\ ~HasBrace(t)
       /\ t \notin KeysOf(var_values)
       /\ strip(t) \notin KeysOf(var_values)
       /\ Contains(result, placeholder(t))

\* C3, as stated: when no value contains the placeholder of another key, the
\* result is the same for every iteration order of the mapping.
Orig_C3 ==
  ( /\ ui = "formatted"
    /\ \A i, j \in DOMAIN var_values :
         i # j => ~Contains(ValueOf(var_values, i), placeholder(NameOf(var_values, j))) )
  => SameInEveryOrder

\* C3, amended: the result is the same for every iteration order when no key
\* and no value contains a brace, no value is empty and no placeholder of the
\* body has a '{' in its inner text.
Thm_C3 == (ui = "formatted" /\ Plain) => SameInEveryOrder

Wit_C3 ==
  /\ ui = "formatted"
  /\ Plain
  /\ Len(var_values) >= 2
  /\ \A i \in DOMAIN var_values :
       Contains(template_content, placeholder(NameOf(var_values, i)))

\* C4, as stated: the output contains no '{{name}}' for a name of the mapping
\* whose value has no brace.
Orig_C4 ==
  ui = "formatted" =>
    \A i \in DOMAIN var_values :
      ~HasBrace(ValueOf(var_values, i)) =>
        ~Contains(result, placeholder(NameOf(var_values, i)))

\* C4, amended: when no key and no value contains a brace, no value is empty
\* and no placeholder of the body has a '{' in its inner text, the output is
\* the body with every '{{name}}' of a name of the mapping replaced by its
\* value, and contains no '{{name}}' for any name of the mapping.
Thm_C4 ==
  (ui = "formatted" /\ Plain) =>
    /\ result = format_template_single_pass(template_content, var_values)
    /\ \A i \in DOMAIN var_values :
         ~Contains(result, placeholder(NameOf(var_values, i)))

Wit_C4 ==
  /\ ui = "formatted"
  /\ Plain
  /\ \E i \in DOMAIN var_values :
       Count(template_content, placeholder(NameOf(var_values, i))) >= 2
  /\ result # template_content

\* entry i puts the placeholder of the later entry j into the text
Introduces(i, j) ==
  /\ i < j
  /\ Contains(ValueOf(var_values, i), placeholder(NameOf(var_values, j)))
  /\ Contains(Before(i), placeholder(NameOf(var_values, i)))

\* C7, as stated: a '{{b}}' brought in by the value of a is replaced when b
\* is processed later, and the output contains the value of b.
Orig_C7 ==
  ui = "formatted" =>
    \A i, j \in DOMAIN var_values :
      Introduces(i, j) =>
        /\ Contains(Before(j), placeholder(NameOf(var_values, j)))
        /\ Contains(result, ValueOf(var_values, j))

\* C7, amended: when no key of the mapping contains a brace, a '{{b}}'
\* brought in by the value of a is still in the text when b is processed
\* later, and the text right after the iteration of b contains the value of b.
Thm_C7 ==
  (ui = "formatted" /\ PlainKeys(var_values)) =>
    \A i, j \in DOMAIN var_values :
      Introduces(i, j) =>
        /\ Contains(Before(j), placeholder(NameOf(var_values, j)))
        /\ Contains(After(j), ValueOf(var_values, j))

Wit_C7 ==
  /\ ui = "formatted"
  /\ PlainKeys(var_values)
  /\ \E i, j \in DOMAIN var_values :
       /\ Introduces(i, j)
       /\ ~Contains(template_content, placeholder(NameOf(var_values, j)))
       /\ ~HasBrace(ValueOf(var_values, j))
       /\ Contains(result, ValueOf(var_values, j))
       /\ ~Contains(result, placeholder(NameOf(var_values, j)))

\* the mapping is {name: v} for the trimmed name of a placeholder written
\* with surrounding whitespace, and the body has no '{{name}}'
PaddedOnly ==
  /\ Len(var_values) = 1
  /\ ~Contains(template_content, placeholder(NameOf(var_values, 1)))
  /\ \E t \in PlaceholderTexts(template_content) :
       strip(t) # t /\ strip(t) = NameOf(var_values, 1)

\* C10: for a placeholder written with leading or trailing whitespace in a
\* body without '{{name}}', the trimmed name is extracted, yet rendering
\* {name: v} returns the body unchanged, the placeholder still in it.
Thm_C10 ==
  (ui = "formatted" /\ PaddedOnly) =>
    /\ NameOf(var_values, 1) \in variables
    /\ result = template_content
    /\ \E t \in PlaceholderTexts(result) : strip(t) = NameOf(var_values, 1)

Wit_C10 ==
  /\ ui = "formatted"
  /\ PaddedOnly
  /\ variables = {NameOf(var_values, 1)}
  /\ ValueOf(var_values, 1) # <<>>

====
